---------------------------- MODULE Spec2Model ----------------------------
(***************************************************************************)
(* Model of src/data_cleaning/DataCleaning.py: the cleaning pipeline       *)
(* DataCleaning.main() run over the listing table apartments_df.           *)
(*                                                                         *)
(* Text is a sequence of one-character strings, so that strip, replace,    *)
(* split, endswith, "in" and the numeric parsers are computed character by *)
(* character.  A cell of the table is one of                               *)
(*   [k |-> "str", s |-> <<chars>>]      a Python str                      *)
(*   [k |-> "None"]                      Python None                       *)
(*   [k |-> "NaN"]                       float('nan') (pandas' missing)    *)
(*   [k |-> "inf"]                       float('inf')                      *)
(*   [k |-> "int",   n |-> p, d |-> 1]   the int p                         *)
(*   [k |-> "float", n |-> p, d |-> q]   the float p/q, q a power of ten   *)
(*   [k |-> "ts", year, month, day, hour, minute]   a datetime             *)
(* Numbers are non-negative: no input alphabet below holds a sign.         *)
(***************************************************************************)
EXTENDS Integers, Sequences, FiniteSets, TLC

VARIABLES
    apartments_df,   \* self.apartments_df: row index -> record of cells
    raw_df,          \* the table as loaded by __init__ (never written again)
    currency_rate,   \* self.currency_rate as the fraction <<num, den>>
    now_year,        \* datetime.now().year
    pc,              \* position of main() in its list of steps
    calls,           \* the steps main() has called so far, in order
    raised,          \* the exception that left a step: its type, the step
                     \* and the row it came from; NoError when there is none
    reran            \* how many steps have been run again after main()

vars ==
    <<apartments_df, raw_df, currency_rate, now_year, pc, calls, raised, reran>>

-----------------------------------------------------------------------------
(* Cells *)

None == [k |-> "None"]
NaN == [k |-> "NaN"]
Inf == [k |-> "inf"]
StrV(s) == [k |-> "str", s |-> s]
IntV(p) == [k |-> "int", n |-> p, d |-> 1]

\* p/q with q a power of ten, written with the smallest such q
RECURSIVE FloatV(_, _)
FloatV(p, q) ==
    IF q > 1 /\ p % 10 = 0 THEN FloatV(p \div 10, q \div 10)
    ELSE [k |-> "float", n |-> p, d |-> q]

IsStr(v) == v.k = "str"
IsNum(v) == v.k \in {"int", "float"}
\* pd.isna / fillna / isnull: None and NaN are the missing values
IsNA(v) == v.k \in {"None", "NaN"}

-----------------------------------------------------------------------------
(* Python str methods on character sequences *)

Space == " "

RECURSIVE LStrip(_)
LStrip(s) == IF s # <<>> /\ Head(s) = Space THEN LStrip(Tail(s)) ELSE s

RECURSIVE RStrip(_)
RStrip(s) ==
    IF s # <<>> /\ s[Len(s)] = Space THEN RStrip(SubSeq(s, 1, Len(s) - 1)) ELSE s

\* str.strip()
Strip(s) == RStrip(LStrip(s))

\* str.replace(c, '') for a one-character c
Remove(s, c) == SelectSeq(s, LAMBDA x : x # c)

\* c in s for a one-character c
HasChar(s, c) == \E i \in 1..Len(s) : s[i] = c

\* str.lower() on the letters the inputs can hold
LowerChar(c) ==
    CASE c = "I" -> "i"
      [] c = "N" -> "n"
      [] c = "F" -> "f"
      [] c = "A" -> "a"
      [] OTHER -> c

Lower(s) == [i \in 1..Len(s) |-> LowerChar(s[i])]

\* t in s for a text t
Contains(s, t) ==
    \E i \in 1..(Len(s) - Len(t) + 1) : SubSeq(s, i, i + Len(t) - 1) = t

\* s.endswith(t)
EndsWith(s, t) ==
    Len(s) >= Len(t) /\ SubSeq(s, Len(s) - Len(t) + 1, Len(s)) = t

\* s.split('/')[0]
BeforeSlash(s) ==
    IF HasChar(s, "/")
    THEN SubSeq(s, 1, (CHOOSE i \in 1..Len(s) :
                          s[i] = "/" /\ \A j \in 1..(i - 1) : s[j] # "/") - 1)
    ELSE s

\* s.split(): the maximal runs of non-space characters, in order
RECURSIVE SplitWs(_, _, _)
SplitWs(s, cur, acc) ==
    IF s = <<>> THEN (IF cur = <<>> THEN acc ELSE Append(acc, cur))
    ELSE IF Head(s) = Space
         THEN SplitWs(Tail(s), <<>>, IF cur = <<>> THEN acc ELSE Append(acc, cur))
         ELSE SplitWs(Tail(s), Append(cur, Head(s)), acc)

Split(s) == SplitWs(s, <<>>, <<>>)

-----------------------------------------------------------------------------
(* Numerals *)

Digits == {"0", "1", "2", "3", "4", "5", "6", "7", "8", "9"}

DigitVal(c) ==
    CASE c = "0" -> 0 [] c = "1" -> 1 [] c = "2" -> 2 [] c = "3" -> 3
      [] c = "4" -> 4 [] c = "5" -> 5 [] c = "6" -> 6 [] c = "7" -> 7
      [] c = "8" -> 8 [] c = "9" -> 9

DigitChar(n) == <<"0", "1", "2", "3", "4", "5", "6", "7", "8", "9">>[n + 1]

AllDigits(s) == \A i \in 1..Len(s) : s[i] \in Digits

RECURSIVE DigitsVal(_, _)
DigitsVal(s, acc) ==
    IF s = <<>> THEN acc ELSE DigitsVal(Tail(s), 10 * acc + DigitVal(Head(s)))

RECURSIVE Pow10(_)
Pow10(k) == IF k = 0 THEN 1 ELSE 10 * Pow10(k - 1)

RECURSIVE NatDigits(_)
NatDigits(n) ==
    IF n < 10 THEN <<DigitChar(n)>>
    ELSE Append(NatDigits(n \div 10), DigitChar(n % 10))

\* n written with exactly w digits
RECURSIVE PadDigits(_, _)
PadDigits(n, w) ==
    IF w = 0 THEN <<>> ELSE Append(PadDigits(n \div 10, w - 1), DigitChar(n % 10))

RECURSIVE Log10(_)
Log10(q) == IF q <= 1 THEN 0 ELSE 1 + Log10(q \div 10)

\* The decimal literal both parsers share: digits with at most one point and
\* at least one digit ("12", "1.5", "1.", ".5").  [ok, int, n, d]
ParseDecimal(s) ==
    LET dots == {i \in 1..Len(s) : s[i] = "."}
    IN  IF Cardinality(dots) = 0
        THEN IF s # <<>> /\ AllDigits(s)
             THEN [ok |-> TRUE, int |-> TRUE, n |-> DigitsVal(s, 0), d |-> 1]
             ELSE [ok |-> FALSE]
        ELSE IF Cardinality(dots) = 1
        THEN LET i == CHOOSE j \in dots : TRUE
                 ip == SubSeq(s, 1, i - 1)
                 fp == SubSeq(s, i + 1, Len(s))
             IN  IF AllDigits(ip) /\ AllDigits(fp) /\ Len(ip) + Len(fp) > 0
                 THEN [ok |-> TRUE, int |-> FALSE,
                       n |-> DigitsVal(ip \o fp, 0), d |-> Pow10(Len(fp))]
                 ELSE [ok |-> FALSE]
        ELSE [ok |-> FALSE]

InfWords == {<<"i", "n", "f">>, <<"i", "n", "f", "i", "n", "i", "t", "y">>}
NanWord == <<"n", "a", "n">>

\* float(s) of Python: surrounding whitespace ignored, a decimal literal or
\* one of the words inf, infinity, nan in any case; ValueError otherwise.
\* [ok |-> FALSE] stands for the ValueError.
PyFloat(s) ==
    LET t == Strip(s)
        p == ParseDecimal(t)
    IN  IF p.ok THEN [ok |-> TRUE, v |-> FloatV(p.n, p.d)]
        ELSE IF Lower(t) \in InfWords THEN [ok |-> TRUE, v |-> Inf]
        ELSE IF Lower(t) = NanWord THEN [ok |-> TRUE, v |-> NaN]
        ELSE [ok |-> FALSE]

\* str(x) of Python
PyStr(v) ==
    CASE v.k = "str" -> v.s
      [] v.k = "None" -> <<"N", "o", "n", "e">>
      [] v.k = "NaN" -> NanWord
      [] v.k = "inf" -> <<"i", "n", "f">>
      [] v.k = "int" -> NatDigits(v.n)
      [] v.k = "float" ->
            NatDigits(v.n \div v.d) \o <<".">> \o
            (IF v.d = 1 THEN <<"0">> ELSE PadDigits(v.n % v.d, Log10(v.d)))

\* round(x) of Python for the fraction p/q >= 0: nearest integer, ties to even
PyRound(p, q) ==
    LET fl == p \div q
        r == p % q
    IN  IF 2 * r < q THEN fl
        ELSE IF 2 * r > q THEN fl + 1
        ELSE IF fl % 2 = 0 THEN fl ELSE fl + 1

\* int(x) of Python for a number >= 0: truncation
PyInt(v) == v.n \div v.d

-----------------------------------------------------------------------------
(* pandas column inference *)

\* What Series.apply and the Series constructor make of a column of numbers
\* and None (lib.maybe_convert_objects): a column of None only stays as it
\* is; otherwise None becomes NaN and, when anything is a float, NaN or None,
\* every int becomes a float; a column of ints only stays int.
InferNumeric(col) ==
    IF \A r \in DOMAIN col : col[r].k = "None" THEN col
    ELSE IF \A r \in DOMAIN col : col[r].k = "int" THEN col
    ELSE [r \in DOMAIN col |->
            CASE col[r].k = "None" -> NaN
              [] col[r].k = "int" -> FloatV(col[r].n, 1)
              [] OTHER -> col[r]]

NaT == [k |-> "NaT"]

\* A column of datetimes and None: None becomes NaT once there is a datetime
InferDates(col) ==
    IF \A r \in DOMAIN col : col[r].k = "None" THEN col
    ELSE [r \in DOMAIN col |-> IF col[r].k = "None" THEN NaT ELSE col[r]]

\* A function's outcome: a returned cell, or the exception that left it
Ret(v) == [exc |-> "none", v |-> v]
Raise(e) == [exc |-> e]

\* apply() goes through the rows in order: the first row whose outcome is an
\* exception (0 when every row returned)
FirstRaise(outs) ==
    IF \A r \in DOMAIN outs : outs[r].exc = "none" THEN 0
    ELSE CHOOSE r \in DOMAIN outs :
            outs[r].exc # "none" /\ \A q \in DOMAIN outs :
                q < r => outs[q].exc = "none"

\* The outcome of a step over the table: the new table, or the exception of
\* the first row that raised (the column is then not assigned)
Done(df) == [exc |-> "none", df |-> df]
RaiseAt(outs, r) == [exc |-> outs[r].exc, row |-> r]

-----------------------------------------------------------------------------
(* __clean_area_m2 *)

UnitSuffix == <<"მ", "²">>

\* Mutant of strip_unit: one character is cut instead of the two of the suffix
strip_unit_short(x) ==
    IF IsStr(x) /\ EndsWith(x.s, UnitSuffix)
    THEN StrV(SubSeq(x.s, 1, Len(x.s) - 1))
    ELSE x

\* lambda x: x[:-2] if isinstance(x, str) and x.endswith('მ²') else x
strip_unit(x) ==
    IF IsStr(x) /\ EndsWith(x.s, UnitSuffix)
    THEN StrV(SubSeq(x.s, 1, Len(x.s) - 2))
    ELSE x

\* Mutant of to_numeric_elem: text that is no numeral is kept as it is
\* (errors='ignore')
to_numeric_elem_ignore(x) ==
    IF IsNum(x) \/ x.k = "inf" THEN x
    ELSE IF ~IsStr(x) THEN NaN
    ELSE LET p == ParseDecimal(Strip(x.s))
         IN  IF p.ok THEN (IF p.int THEN IntV(p.n) ELSE FloatV(p.n, p.d))
             ELSE x

\* One element of pd.to_numeric(..., errors='coerce'): a number stays, text
\* is read by pandas' own parser (surrounding whitespace skipped, a decimal
\* literal; the word inf), anything else is NaN
to_numeric_elem(x) ==
    IF IsNum(x) \/ x.k = "inf" THEN x
    ELSE IF ~IsStr(x) THEN NaN
    ELSE LET p == ParseDecimal(Strip(x.s))
         IN  IF p.ok THEN (IF p.int THEN IntV(p.n) ELSE FloatV(p.n, p.d))
             ELSE IF Lower(x.s) \in InfWords THEN Inf
             ELSE NaN

\* pd.to_numeric over a column: int64 when every element is an int, float64
\* otherwise
to_numeric(col) ==
    LET e == [r \in DOMAIN col |-> to_numeric_elem(col[r])]
    IN  IF \A r \in DOMAIN e : e[r].k = "int" THEN e
        ELSE [r \in DOMAIN e |->
                IF e[r].k = "int" THEN FloatV(e[r].n, 1) ELSE e[r]]

clean_area_m2(df) ==
    LET col == to_numeric([r \in DOMAIN df |-> strip_unit(df[r].area_m2)])
    IN  [r \in DOMAIN df |-> [df[r] EXCEPT !.area_m2 = col[r]]]

-----------------------------------------------------------------------------
(* __clean_and_transform_price *)

\* Mutant of parse_price: a price without the marker is not converted
parse_price_unconverted(price, rate) ==
    LET price_str == Lower(Strip(Remove(PyStr(price), ",")))
    IN  IF HasChar(price_str, "$")
        THEN LET f == PyFloat(Strip(Remove(price_str, "$")))
             IN  IF f.ok THEN Ret(f.v) ELSE Ret(None)
        ELSE LET f == PyFloat(price_str)
             IN  IF ~f.ok THEN Ret(None)
                 ELSE IF f.v.k = "NaN" THEN Ret(None)
                 ELSE IF f.v.k = "inf" THEN Raise("OverflowError")
                 ELSE Ret(IntV(PyRound(f.v.n, f.v.d)))

\* parse_price: only ValueError is caught; round(inf) raises OverflowError
parse_price(price, rate) ==
    LET price_str == Lower(Strip(Remove(PyStr(price), ",")))
    IN  IF HasChar(price_str, "$")
        THEN LET f == PyFloat(Strip(Remove(price_str, "$")))
             IN  IF f.ok THEN Ret(f.v) ELSE Ret(None)
        ELSE LET f == PyFloat(price_str)
             IN  IF ~f.ok THEN Ret(None)
                 ELSE IF f.v.k = "NaN" THEN Ret(None)
                 ELSE IF f.v.k = "inf" THEN Raise("OverflowError")
                 ELSE Ret(IntV(PyRound(f.v.n * rate[1], f.v.d * rate[2])))

-----------------------------------------------------------------------------
(* __clean_price_per_sqm *)

\* int(x) inside the try of clean_row: TypeError for None, ValueError for
\* NaN, OverflowError for inf
int_of(v) ==
    CASE v.k = "None" -> Raise("TypeError")
      [] v.k = "NaN" -> Raise("ValueError")
      [] v.k = "inf" -> Raise("OverflowError")
      [] v.k = "str" ->
            (IF Strip(v.s) # <<>> /\ AllDigits(Strip(v.s))
             THEN Ret(DigitsVal(Strip(v.s), 0)) ELSE Raise("ValueError"))
      [] OTHER -> Ret(PyInt(v))

\* int(row['price']) // int(row['area_m2']) under
\* except (TypeError, ZeroDivisionError): return None
derive_price_per_sqm(row) ==
    LET p == int_of(row.price)
        a == int_of(row.area_m2)
    IN  IF p.exc = "TypeError" THEN Ret(None)
        ELSE IF p.exc # "none" THEN Raise(p.exc)
        ELSE IF a.exc = "TypeError" THEN Ret(None)
        ELSE IF a.exc # "none" THEN Raise(a.exc)
        ELSE IF a.v = 0 THEN Ret(None)
        ELSE Ret(IntV(p.v \div a.v))

\* float(value) / round(float(value) * rate) with nothing caught
convert_price_per_sqm(cell, rate) ==
    LET value0 == Strip(PyStr(cell))
        value == IF HasChar(value0, "/") THEN Strip(BeforeSlash(value0)) ELSE value0
    IN  IF HasChar(value, "$")
        THEN LET f == PyFloat(Strip(Remove(Remove(value, "$"), ",")))
             IN  IF f.ok THEN Ret(f.v) ELSE Raise("ValueError")
        ELSE LET f == PyFloat(Strip(Remove(value, ",")))
             IN  IF ~f.ok THEN Raise("ValueError")
                 ELSE IF f.v.k = "NaN" THEN Raise("ValueError")
                 ELSE IF f.v.k = "inf" THEN Raise("OverflowError")
                 ELSE Ret(IntV(PyRound(f.v.n * rate[1], f.v.d * rate[2])))

clean_row(row, rate) ==
    IF IsNA(row.price_per_sqm)
    THEN derive_price_per_sqm(row)
    ELSE convert_price_per_sqm(row.price_per_sqm, rate)

-----------------------------------------------------------------------------
(* __fill_district_name_nulls *)

Sentinel == StrV(<<"ა", "რ", " ", "ა", "რ", "ი", "ს", " ", "მ", "ო", "წ", "ო", "დ", "ე", "ბ", "უ", "ლ", "ი">>)

\* Mutant of fill_district_name_nulls: the empty text is taken for missing too
fill_district_name_blanks(df) ==
    [r \in DOMAIN df |->
        IF IsNA(df[r].district_name) \/ df[r].district_name = StrV(<<>>)
        THEN [df[r] EXCEPT !.district_name = Sentinel]
        ELSE df[r]]

fill_district_name_nulls(df) ==
    [r \in DOMAIN df |->
        IF IsNA(df[r].district_name)
        THEN [df[r] EXCEPT !.district_name = Sentinel]
        ELSE df[r]]

-----------------------------------------------------------------------------
(* __transform_upload_date *)

geo_months ==
    (<<"ი", "ა", "ნ">> :> 1) @@
    (<<"თ", "ე", "ბ">> :> 2) @@
    (<<"მ", "ა", "რ">> :> 3) @@
    (<<"ა", "პ", "რ">> :> 4) @@
    (<<"მ", "ა", "ი">> :> 5) @@
    (<<"ი", "ვ", "ნ">> :> 6) @@
    (<<"ი", "ვ", "ლ">> :> 7) @@
    (<<"ა", "გ", "ვ">> :> 8) @@
    (<<"ს", "ე", "ქ">> :> 9) @@
    (<<"ო", "ქ", "ტ">> :> 10) @@
    (<<"ნ", "ო", "ე">> :> 11) @@
    (<<"დ", "ე", "კ">> :> 12)

IsLeap(y) == (y % 4 = 0 /\ y % 100 # 0) \/ y % 400 = 0

DaysInMonth(y, m) ==
    IF m = 2 THEN (IF IsLeap(y) THEN 29 ELSE 28)
    ELSE IF m \in {4, 6, 9, 11} THEN 30 ELSE 31

\* s[a:b] for 0 <= a <= b
Slice(s, a, b) == SubSeq(s, a + 1, IF b < Len(s) THEN b ELSE Len(s))

\* int(s) for a token (no whitespace inside): its digits, else ValueError
IsIntText(s) == s # <<>> /\ AllDigits(s)

\* Mutant of parse_date: the minute is read from characters 3-4 of the time
\* (time_str[2:4]), the colon included
parse_date_minute_off(upload_str, year) ==
    LET parts == Split(upload_str)
    IN  IF Len(parts) # 3 THEN None
        ELSE LET day == parts[1]
                 abbr == Slice(parts[2], 0, 3)
                 time_str == parts[3]
                 hh == Slice(time_str, 0, 2)
                 mm == Slice(time_str, 2, 4)
             IN  IF abbr \notin DOMAIN geo_months THEN None
                 ELSE IF ~(IsIntText(day) /\ IsIntText(hh) /\ IsIntText(mm)) THEN None
                 ELSE LET month == geo_months[abbr]
                          d == DigitsVal(day, 0)
                          h == DigitsVal(hh, 0)
                          m == DigitsVal(mm, 0)
                      IN  IF d >= 1 /\ d <= DaysInMonth(year, month)
                             /\ h <= 23 /\ m <= 59
                          THEN [k |-> "ts", year |-> year, month |-> month,
                                day |-> d, hour |-> h, minute |-> m]
                          ELSE None

\* parse_date: every exception is caught (bare except) and gives None; the
\* datetime constructor raises ValueError for a day, hour or minute out of
\* range
parse_date(upload_str, year) ==
    LET parts == Split(upload_str)
    IN  IF Len(parts) # 3 THEN None
        ELSE LET day == parts[1]
                 abbr == Slice(parts[2], 0, 3)
                 time_str == parts[3]
                 hh == Slice(time_str, 0, 2)
                 mm == Slice(time_str, 3, 5)
             IN  IF abbr \notin DOMAIN geo_months THEN None
                 ELSE IF ~(IsIntText(day) /\ IsIntText(hh) /\ IsIntText(mm)) THEN None
                 ELSE LET month == geo_months[abbr]
                          d == DigitsVal(day, 0)
                          h == DigitsVal(hh, 0)
                          m == DigitsVal(mm, 0)
                      IN  IF d >= 1 /\ d <= DaysInMonth(year, month)
                             /\ h <= 23 /\ m <= 59
                          THEN [k |-> "ts", year |-> year, month |-> month,
                                day |-> d, hour |-> h, minute |-> m]
                          ELSE None

\* df['upload_date'].astype(str) and then apply(parse_date)
transform_upload_date(df, year) ==
    LET col == InferDates([r \in DOMAIN df |->
                              parse_date(PyStr(df[r].upload_date), year)])
    IN  [r \in DOMAIN df |-> [df[r] EXCEPT !.upload_date = col[r]]]

-----------------------------------------------------------------------------
(* __new_transaction_type_col *)

ForSale == <<"ი", "ყ", "ი", "დ", "ე", "ბ", "ა">>
Pledge == <<"გ", "ი", "რ", "ა", "ვ", "დ", "ე", "ბ", "ა">>
DailyRent == <<"ქ", "ი", "რ", "ა", "ვ", "დ", "ე", "ბ", "ა", " ", "დ", "ღ", "ი", "უ", "რ", "ა", "დ">>
Rent == <<"ქ", "ი", "რ", "ა", "ვ", "დ", "ე", "ბ", "ა">>
MonthlyRent == <<"ქ", "ი", "რ", "ა", "ვ", "დ", "ე", "ბ", "ა", " ", "თ", "ვ", "ი", "უ", "რ", "ა", "დ">>

\* Mutant of extract_transaction_type: the rental marker is looked for
\* before the daily-rental marker
extract_transaction_type_rent_first(desc) ==
    IF ~IsStr(desc) THEN None
    ELSE LET d == Strip(desc.s)
         IN  IF Contains(d, ForSale) THEN StrV(ForSale)
             ELSE IF Contains(d, Pledge) THEN StrV(Pledge)
             ELSE IF Contains(d, Rent) THEN StrV(MonthlyRent)
             ELSE IF Contains(d, DailyRent) THEN StrV(DailyRent)
             ELSE None

extract_transaction_type(desc) ==
    IF ~IsStr(desc) THEN None
    ELSE LET d == Strip(desc.s)
         IN  IF Contains(d, ForSale) THEN StrV(ForSale)
             ELSE IF Contains(d, Pledge) THEN StrV(Pledge)
             ELSE IF Contains(d, DailyRent) THEN StrV(DailyRent)
             ELSE IF Contains(d, Rent) THEN StrV(MonthlyRent)
             ELSE None

new_transaction_type_col(df) ==
    [r \in DOMAIN df |->
        [df[r] EXCEPT !.transaction_type = extract_transaction_type(df[r].description)]]

-----------------------------------------------------------------------------
(* The two steps that can raise, over the table *)

clean_and_transform_price(df, rate) ==
    LET outs == [r \in DOMAIN df |-> parse_price(df[r].price, rate)]
        bad == FirstRaise(outs)
    IN  IF bad # 0 THEN RaiseAt(outs, bad)
        ELSE LET col == InferNumeric([r \in DOMAIN df |-> outs[r].v])
             IN  Done([r \in DOMAIN df |-> [df[r] EXCEPT !.price = col[r]]])

clean_price_per_sqm(df, rate) ==
    LET outs == [r \in DOMAIN df |-> clean_row(df[r], rate)]
        bad == FirstRaise(outs)
    IN  IF bad # 0 THEN RaiseAt(outs, bad)
        ELSE LET col == InferNumeric([r \in DOMAIN df |-> outs[r].v])
             IN  Done([r \in DOMAIN df |-> [df[r] EXCEPT !.price_per_sqm = col[r]]])

-----------------------------------------------------------------------------
(* main() *)

\* Mutant of main: the price-per-area step is called before the area step
main_area_late ==
    <<"clean_and_transform_price", "clean_price_per_sqm", "clean_area_m2",
      "transform_upload_date", "new_transaction_type_col",
      "fill_district_name_nulls">>

\* The mutating calls of main(), in order (the diagnostics before and after
\* them only print)
main ==
    <<"clean_and_transform_price", "clean_area_m2", "clean_price_per_sqm",
      "transform_upload_date", "new_transaction_type_col",
      "fill_district_name_nulls">>

NoError == [exc |-> "none"]

Finished == pc = Len(main) + 1 /\ raised = NoError

At(step) == raised = NoError /\ reran = 0 /\ pc <= Len(main) /\ main[pc] = step

\* A step that raised leaves main() at once; a step that returned hands the
\* table to the next call
Continue(step, out) ==
    /\ calls' = Append(calls, step)
    /\ IF out.exc # "none"
       THEN /\ raised' = [exc |-> out.exc, step |-> step, row |-> out.row]
            /\ UNCHANGED <<apartments_df, pc>>
       ELSE /\ apartments_df' = out.df
            /\ pc' = pc + 1
            /\ UNCHANGED raised

Frame == UNCHANGED <<raw_df, currency_rate, now_year, reran>>

CleanAndTransformPrice ==
    /\ At("clean_and_transform_price")
    /\ Continue("clean_and_transform_price",
                clean_and_transform_price(apartments_df, currency_rate))
    /\ Frame

CleanAreaM2 ==
    /\ At("clean_area_m2")
    /\ Continue("clean_area_m2", Done(clean_area_m2(apartments_df)))
    /\ Frame

CleanPricePerSqm ==
    /\ At("clean_price_per_sqm")
    /\ Continue("clean_price_per_sqm",
                clean_price_per_sqm(apartments_df, currency_rate))
    /\ Frame

TransformUploadDate ==
    /\ At("transform_upload_date")
    /\ Continue("transform_upload_date",
                Done(transform_upload_date(apartments_df, now_year)))
    /\ Frame

NewTransactionTypeCol ==
    /\ At("new_transaction_type_col")
    /\ Continue("new_transaction_type_col",
                Done(new_transaction_type_col(apartments_df)))
    /\ Frame

FillDistrictNameNulls ==
    /\ At("fill_district_name_nulls")
    /\ Continue("fill_district_name_nulls",
                Done(fill_district_name_nulls(apartments_df)))
    /\ Frame

Next ==
    \/ CleanAndTransformPrice
    \/ CleanAreaM2
    \/ CleanPricePerSqm
    \/ TransformUploadDate
    \/ NewTransactionTypeCol
    \/ FillDistrictNameNulls

-----------------------------------------------------------------------------
(* The area, price and price-per-area steps called once more after main() *)

Again == <<"clean_area_m2", "clean_and_transform_price", "clean_price_per_sqm">>

AtAgain(step) == Finished /\ reran < Len(Again) /\ Again[reran + 1] = step

ContinueAgain(step, out) ==
    IF out.exc # "none"
    THEN /\ raised' = [exc |-> out.exc, step |-> step, row |-> out.row]
         /\ UNCHANGED <<apartments_df, reran>>
    ELSE /\ apartments_df' = out.df
         /\ reran' = reran + 1
         /\ UNCHANGED raised

FrameAgain == UNCHANGED <<raw_df, currency_rate, now_year, pc, calls>>

CleanAreaM2Again ==
    /\ AtAgain("clean_area_m2")
    /\ ContinueAgain("clean_area_m2", Done(clean_area_m2(apartments_df)))
    /\ FrameAgain

CleanAndTransformPriceAgain ==
    /\ AtAgain("clean_and_transform_price")
    /\ ContinueAgain("clean_and_transform_price",
                     clean_and_transform_price(apartments_df, currency_rate))
    /\ FrameAgain

CleanPricePerSqmAgain ==
    /\ AtAgain("clean_price_per_sqm")
    /\ ContinueAgain("clean_price_per_sqm",
                     clean_price_per_sqm(apartments_df, currency_rate))
    /\ FrameAgain

NextAgain ==
    \/ CleanAndTransformPrice
    \/ CleanAreaM2
    \/ CleanPricePerSqm
    \/ TransformUploadDate
    \/ NewTransactionTypeCol
    \/ FillDistrictNameNulls
    \/ CleanAreaM2Again
    \/ CleanAndTransformPriceAgain
    \/ CleanPricePerSqmAgain

-----------------------------------------------------------------------------
(* The tables main() is run on *)

\* Rows of a table
NumRows == 2
\* Longest text tried for a price, an area
MaxPriceLen == 3
MaxAreaLen == 3
\* Most fragments a description is put together from
MaxFrags == 3

\* The transaction_type column does not exist before main()
NoColumn == [k |-> "nocol"]

Row(p, a, q, u, de, di) ==
    [price |-> p, area_m2 |-> a, price_per_sqm |-> q, upload_date |-> u,
     description |-> de, district_name |-> di, transaction_type |-> NoColumn]

RECURSIVE Texts(_, _)
Texts(chars, n) ==
    IF n = 0 THEN {<<>>}
    ELSE LET shorter == Texts(chars, n - 1)
         IN  shorter \cup {Append(s, c) : s \in shorter, c \in chars}

RECURSIVE Joined(_, _)
Joined(frags, n) ==
    IF n = 0 THEN {<<>>}
    ELSE LET shorter == Joined(frags, n - 1)
         IN  shorter \cup {s \o f : s \in shorter, f \in frags}

\* Exchange rates: fractions a float holds exactly
Rates == {<<1, 1>>, <<3, 8>>, <<5, 2>>}
\* A leap year and a common year
Years == {2024, 2025}

Negotiable == <<"n", "e", "g", "o", "t", "i", "a", "b", "l", "e">>
GoodDate == <<"1", "5", " ", "მ", "ა", "რ", " ", "1", "4", ":", "3", "0">>
ShortDate == <<"1", "5", " ", "მ", "ა", "რ">>
SaleText == <<"ბ", "ი", "ნ", "ა", " ", "ი", "ყ", "ი", "დ", "ე", "ბ", "ა">>
Vake == <<"ვ", "ა", "კ", "ე">>

PriceInputs ==
    {StrV(<<"1", "0", "0", ",", "0", "0", "0", "$">>), StrV(<<"1", ",", "0", "0", "0">>), StrV(<<"$", " ", "2", "0", ".", "5">>), StrV(Negotiable), NaN}
AreaInputs ==
    {StrV(<<"5", "0", "მ", "²">>), StrV(<<"0", " ", "მ", "²">>), StrV(<<"1", "2", ".", "5", " ", "მ", "²">>), StrV(<<"4", "0">>),
     StrV(<<"მ", "²">>), IntV(20), NaN}
PricePerSqmInputs ==
    {NaN, None, StrV(<<"1", ",", "2", "0", "0", "$">>), StrV(<<"3", "0", " ", "/", " ", "თ", "ვ", "ე">>), StrV(<<"2", "$", "/", "მ", "²">>),
     StrV(Negotiable)}
DateInputs == {StrV(GoodDate), NaN}
DescriptionInputs == {StrV(SaleText), NaN}
DistrictInputs == {StrV(Vake), StrV(<<>>), NaN}

\* The rows of the end-to-end example: a well-formed row, a row with a
\* negotiable price, a row priced in lari with no district
WellFormedRow ==
    Row(StrV(<<"1", "0", "0", ",", "0", "0", "0", "$">>), StrV(<<"5", "0", "მ", "²">>), NaN, StrV(GoodDate),
        StrV(SaleText), StrV(Vake))
NegotiableRow ==
    Row(StrV(Negotiable), StrV(<<"5", "0", "მ", "²">>), NaN, StrV(GoodDate),
        StrV(SaleText), StrV(Vake))
LariRow ==
    Row(StrV(<<"1", ",", "0", "0", "0">>), StrV(<<"4", "0">>), StrV(<<"3", "0", " ", "/", " ", "თ", "ვ", "ე">>), StrV(ShortDate),
        NaN, NaN)

OtherRows == {WellFormedRow, NegotiableRow, LariRow}

InitWith(firstRows, otherRows, rates, years) ==
    /\ \E first \in firstRows, rest \in [2..NumRows -> otherRows] :
          apartments_df = [r \in 1..NumRows |-> IF r = 1 THEN first ELSE rest[r]]
    /\ raw_df = apartments_df
    /\ currency_rate \in rates
    /\ now_year \in years
    /\ pc = 1
    /\ calls = <<>>
    /\ raised = NoError
    /\ reran = 0

Init ==
    InitWith({Row(p, a, q, u, de, di) :
                 p \in PriceInputs, a \in AreaInputs, q \in PricePerSqmInputs,
                 u \in DateInputs, de \in DescriptionInputs, di \in DistrictInputs},
             OtherRows, {<<3, 8>>}, {2025})

Spec == Init /\ [][Next]_vars

-----------------------------------------------------------------------------
(* Vocabulary of the properties *)

Rows == DOMAIN apartments_df

\* Two numbers with the same value (100 and 100.0 are the same value)
NumEq(a, b) == IsNum(a) /\ IsNum(b) /\ a.n * b.d = b.n * a.d

\* "missing": None, NaN or NaT
Missing(v) == v.k \in {"None", "NaN", "NaT"}

\* A number, infinity included
Numeric(v) == IsNum(v) \/ v.k = "inf"

\* The step has been called by main()
Called(step) == \E i \in 1..Len(calls) : calls[i] = step

\* The step has been called by main() and has returned
Returned(step) == \E i \in 1..Len(calls) : calls[i] = step /\ pc > i

\* The step was left by an exception
RaisedIn(step) == raised.exc # "none" /\ raised.step = step

\* a was called before b
CalledBefore(a, b) ==
    \E i, j \in 1..Len(calls) : i < j /\ calls[i] = a /\ calls[j] = b

IsPrefix(s, t) == Len(s) <= Len(t) /\ s = SubSeq(t, 1, Len(s))

Labels == {StrV(ForSale), StrV(Pledge), StrV(DailyRent), StrV(MonthlyRent)}

-----------------------------------------------------------------------------
(* C1 *)

\* C1: no parse failure leaves a cleaning step: no step of main() is left by
\* an exception, whatever the values of the table, and the columns a step
\* does not clean keep the values the table was loaded with.
C1_NoParseFailureLeavesAStep ==
    /\ raised = NoError
    /\ \A r \in Rows :
          /\ apartments_df[r].description = raw_df[r].description
          /\ ~Called("clean_and_transform_price") =>
                apartments_df[r].price = raw_df[r].price
          /\ ~Called("clean_area_m2") =>
                apartments_df[r].area_m2 = raw_df[r].area_m2
          /\ ~Called("clean_price_per_sqm") =>
                apartments_df[r].price_per_sqm = raw_df[r].price_per_sqm
          /\ ~Called("transform_upload_date") =>
                apartments_df[r].upload_date = raw_df[r].upload_date
          /\ ~Called("fill_district_name_nulls") =>
                apartments_df[r].district_name = raw_df[r].district_name

-----------------------------------------------------------------------------
(* C2 *)

\* floor(p / a) for two numbers, a # 0
Quotient(p, a) == (p.n * a.d) \div (p.d * a.n)

\* C2: for every row whose price_per_sqm was missing, the price-per-area
\* step raises nothing and leaves the integer quotient of the cleaned price
\* by the cleaned area, or "missing" when the cleaned price or area is
\* missing or not a number or the area is zero.
C2_DerivedPricePerSqm ==
    \A r \in Rows :
        IsNA(raw_df[r].price_per_sqm) =>
            /\ ~(RaisedIn("clean_price_per_sqm") /\ raised.row = r)
            /\ Returned("clean_price_per_sqm") /\ reran = 0 =>
                  LET p == apartments_df[r].price
                      a == apartments_df[r].area_m2
                      q == apartments_df[r].price_per_sqm
                  IN  IF IsNum(p) /\ IsNum(a) /\ a.n # 0
                      THEN NumEq(q, IntV(Quotient(p, a)))
                      ELSE Missing(q)

-----------------------------------------------------------------------------
(* C5 *)

\* C5: when main() has completed, in every row area_m2, price and
\* price_per_sqm are numbers or missing, upload_date is a timestamp or
\* missing, transaction_type is one of the four labels or missing, and
\* district_name is not missing.
C5_CleanedTableInvariants ==
    Finished /\ reran = 0 =>
        \A r \in Rows :
            LET row == apartments_df[r]
            IN  /\ Numeric(row.area_m2) \/ Missing(row.area_m2)
                /\ Numeric(row.price) \/ Missing(row.price)
                /\ Numeric(row.price_per_sqm) \/ Missing(row.price_per_sqm)
                /\ row.upload_date.k = "ts" \/ Missing(row.upload_date)
                /\ row.transaction_type \in Labels \/ Missing(row.transaction_type)
                /\ ~Missing(row.district_name)

\* main() completed on a table with an unparseable price, an unparseable
\* area, a missing date, no description and no district
C5_Witness ==
    /\ Finished /\ reran = 0
    /\ \E r \in Rows :
          /\ IsStr(raw_df[r].price) /\ Missing(apartments_df[r].price)
          /\ Numeric(apartments_df[r].price_per_sqm)
          /\ Missing(apartments_df[r].upload_date)
          /\ Missing(apartments_df[r].transaction_type)
          /\ apartments_df[r].district_name = Sentinel
    /\ \E r \in Rows :
          IsStr(raw_df[r].area_m2) /\ Missing(apartments_df[r].area_m2)

-----------------------------------------------------------------------------
(* C8 *)

ClaimedOrder ==
    <<"clean_and_transform_price", "clean_area_m2", "clean_price_per_sqm",
      "transform_upload_date", "new_transaction_type_col",
      "fill_district_name_nulls">>

\* C8: main() calls the steps one after another in the order price, area,
\* price-per-area, upload date, transaction type, district filler; the
\* price-per-area step is called only after the price and the area step have
\* returned, so it reads no uncleaned (text) price or area; the district
\* filler is called after every other step.
C8_StepsInOrder ==
    /\ IsPrefix(calls, ClaimedOrder)
    /\ Len(calls) \in {pc - 1, pc}
    /\ Called("clean_price_per_sqm") =>
          /\ CalledBefore("clean_and_transform_price", "clean_price_per_sqm")
          /\ CalledBefore("clean_area_m2", "clean_price_per_sqm")
          /\ \A r \in Rows :
                ~IsStr(apartments_df[r].price) /\ ~IsStr(apartments_df[r].area_m2)
    /\ Called("fill_district_name_nulls") =>
          \A i \in 1..(Len(ClaimedOrder) - 1) :
              CalledBefore(ClaimedOrder[i], "fill_district_name_nulls")

\* main() ran to its end, over a table that held text prices and areas
C8_Witness ==
    /\ Finished /\ Len(calls) = 6
    /\ \E r \in Rows : IsStr(raw_df[r].price) /\ IsStr(raw_df[r].area_m2)
    /\ \E r \in Rows : IsNA(raw_df[r].price_per_sqm)

-----------------------------------------------------------------------------
(* C10 *)

\* C10: the district filler leaves no missing district_name: a value that
\* was missing before the step is the sentinel after it, a value that was
\* present is unchanged.
C10_DistrictFilled ==
    [][calls' = Append(calls, "fill_district_name_nulls") =>
         \A r \in Rows :
            LET before == apartments_df[r].district_name
                after == apartments_df'[r].district_name
            IN  /\ ~Missing(after)
                /\ Missing(before) => after = Sentinel
                /\ ~Missing(before) => after = before]_vars

\* the filler has run on a table with a missing, an empty and a named district
C10_Witness ==
    /\ Returned("fill_district_name_nulls")
    /\ \E r \in Rows :
          Missing(raw_df[r].district_name) /\ apartments_df[r].district_name = Sentinel
    /\ \E r \in Rows : apartments_df[r].district_name = StrV(Vake)

-----------------------------------------------------------------------------
(* C3 *)

\* main() followed by a second call of the area, price and price-per-area
\* steps, for each exchange rate
InitAgain ==
    InitWith({Row(p, a, q, StrV(GoodDate), StrV(SaleText), StrV(Vake)) :
                 p \in PriceInputs, a \in AreaInputs, q \in PricePerSqmInputs},
             OtherRows, Rates, {2025})

SpecAgain == InitAgain /\ [][NextAgain]_vars

\* area_m2, price and price_per_sqm are (finite) numbers in every row
Cleaned(df) ==
    \A r \in DOMAIN df :
        IsNum(df[r].area_m2) /\ IsNum(df[r].price) /\ IsNum(df[r].price_per_sqm)

\* One of the three steps is run again, on a cleaned table
RunAgain ==
    /\ Finished /\ Cleaned(apartments_df)
    /\ reran' # reran \/ raised' # raised

\* C3 as stated: on an already cleaned table, running the area, the price
\* and the price-per-area step again changes no value of the three columns.
C3_RerunIsNoOp ==
    [][RunAgain =>
         /\ raised' = NoError
         /\ \A r \in Rows :
               /\ NumEq(apartments_df'[r].area_m2, apartments_df[r].area_m2)
               /\ NumEq(apartments_df'[r].price, apartments_df[r].price)
               /\ NumEq(apartments_df'[r].price_per_sqm,
                        apartments_df[r].price_per_sqm)]_vars

\* q is the integer nearest to v * rate, the even one of the two on a tie
NearestToConverted(q, v, rate) ==
    LET num == v.n * rate[1]
        den == v.d * rate[2]
        off == IF q.n * den >= num THEN q.n * den - num ELSE num - q.n * den
    IN  /\ IsNum(q) /\ q.d = 1
        /\ 2 * off <= den
        /\ 2 * off = den => q.n % 2 = 0

\* C3 as amended: on an already cleaned table the area step run again
\* changes nothing; the price step and the price-per-area step run again
\* raise nothing and replace each value v of their column by
\* round(v * rate), leaving the other two columns as they are.
C3_RerunConvertsAgain ==
    [][RunAgain =>
         /\ raised' = NoError
         /\ reran' = reran + 1
         /\ \A r \in Rows :
               LET old == apartments_df[r]
                   new == apartments_df'[r]
               IN  /\ NumEq(new.area_m2, old.area_m2)
                   /\ IF Again[reran'] = "clean_and_transform_price"
                      THEN NearestToConverted(new.price, old.price, currency_rate)
                      ELSE new.price = old.price
                   /\ IF Again[reran'] = "clean_price_per_sqm"
                      THEN NearestToConverted(new.price_per_sqm,
                                              old.price_per_sqm, currency_rate)
                      ELSE new.price_per_sqm = old.price_per_sqm]_vars

\* the three steps have run again on a cleaned table, at a rate other than 1
C3_Witness ==
    /\ reran = Len(Again) /\ raised = NoError
    /\ Cleaned(apartments_df)
    /\ currency_rate # <<1, 1>>
    /\ \E r \in Rows : IsNA(raw_df[r].price_per_sqm)
    /\ \E r \in Rows : IsStr(raw_df[r].price_per_sqm)

-----------------------------------------------------------------------------
(* C4 *)

PriceChars == {"1", "5", ".", ",", "$", " ", "i", "n", "f", "I"}

\* main() over a table whose first price is any text of at most MaxPriceLen
\* characters, or no text at all
InitPrice ==
    InitWith({Row(p, StrV(<<"5", "0", "მ", "²">>), StrV(<<"1", ",", "2", "0", "0", "$">>), StrV(GoodDate),
                  StrV(SaleText), StrV(Vake)) :
                 p \in {StrV(t) : t \in Texts(PriceChars, MaxPriceLen)}
                       \cup {NaN, None, IntV(15), FloatV(15, 10)}},
             OtherRows, Rates, {2025})

SpecPrice == InitPrice /\ [][Next]_vars

\* The same value: the same number, or both infinite, or both missing
SameValue(a, b) ==
    \/ NumEq(a, b)
    \/ a.k = "inf" /\ b.k = "inf"
    \/ Missing(a) /\ Missing(b)

\* C4: the price step raises nothing and maps every price, once commas are
\* removed and the text is trimmed and lowercased, to the numeral read after
\* removing '$' when the text holds '$', to round(n * rate) when it holds no
\* '$' and reads as the numeral n, and to "missing" when it cannot be read.
C4_PriceMapping ==
    /\ ~RaisedIn("clean_and_transform_price")
    /\ Returned("clean_and_transform_price") /\ reran = 0 =>
          \A r \in Rows :
              LET text == Lower(Strip(Remove(PyStr(raw_df[r].price), ",")))
                  out == apartments_df[r].price
              IN  IF HasChar(text, "$")
                  THEN LET f == PyFloat(Remove(text, "$"))
                       IN  IF f.ok THEN SameValue(out, f.v) ELSE Missing(out)
                  ELSE LET f == PyFloat(text)
                       IN  IF f.ok /\ IsNum(f.v)
                           THEN NearestToConverted(out, f.v, currency_rate)
                           ELSE Missing(out)

-----------------------------------------------------------------------------
(* C9 *)

AreaChars == {"0", "5", ".", " ", "x", "მ", "²"}

\* main() over a table whose first area is any text of at most MaxAreaLen
\* characters, or a number, or missing
InitArea ==
    InitWith({Row(StrV(<<"1", "0", "0", ",", "0", "0", "0", "$">>), a, NaN, StrV(GoodDate),
                  StrV(SaleText), StrV(Vake)) :
                 a \in {StrV(t) : t \in Texts(AreaChars, MaxAreaLen)}
                       \cup {StrV(<<"i", "n", "f">>), StrV(<<"1", "2", ".", "5", " ", "მ", "²">>), IntV(20),
                             FloatV(125, 10), NaN, None}},
             {WellFormedRow, LariRow}, {<<3, 8>>}, {2025})

SpecArea == InitArea /\ [][Next]_vars

\* Numeral text: a decimal literal, spaces around it allowed, or the word inf
IsNumeralText(s) == ParseDecimal(Strip(s)).ok \/ Lower(s) \in InfWords

NumeralValue(s) ==
    LET p == ParseDecimal(Strip(s))
    IN  IF p.ok THEN FloatV(p.n, p.d) ELSE Inf

\* C9: the area step raises nothing and maps a text made of a numeral and
\* the unit suffix at its end to the value of the numeral, numeral text and
\* numbers to their value, and everything else to "missing".
C9_AreaMapping ==
    /\ ~RaisedIn("clean_area_m2")
    /\ Returned("clean_area_m2") /\ reran = 0 =>
          \A r \in Rows :
              LET x == raw_df[r].area_m2
                  out == apartments_df[r].area_m2
              IN  IF IsStr(x) /\ EndsWith(x.s, UnitSuffix)
                     /\ IsNumeralText(SubSeq(x.s, 1, Len(x.s) - Len(UnitSuffix)))
                  THEN SameValue(out, NumeralValue(
                           SubSeq(x.s, 1, Len(x.s) - Len(UnitSuffix))))
                  ELSE IF IsStr(x) /\ IsNumeralText(x.s)
                  THEN SameValue(out, NumeralValue(x.s))
                  ELSE IF Numeric(x) THEN SameValue(out, x)
                  ELSE Missing(out) /\ ~Numeric(out)

\* the area step has run on "5მ²" (5), next to the plain numeral "40" (40),
\* and on a text that is no numeral
C9_Witness ==
    /\ Returned("clean_area_m2")
    /\ raw_df[1].area_m2 = StrV(<<"5", "მ", "²">>) /\ NumEq(apartments_df[1].area_m2, IntV(5))
    /\ raw_df[2].area_m2 = StrV(<<"4", "0">>) /\ NumEq(apartments_df[2].area_m2, IntV(40))

C9_WitnessMissing ==
    /\ Returned("clean_area_m2")
    /\ raw_df[1].area_m2 = StrV(<<"5", "x", "მ">>) /\ Missing(apartments_df[1].area_m2)

-----------------------------------------------------------------------------
(* C7 *)

DayTokens == {<<"1", "5">>, <<"1">>, <<"2", "9">>, <<"3", "0">>, <<"3", "1">>, <<"0">>, <<"3", "2">>, <<"1", "x">>}
MonthTokens ==
    {<<"ი", "ა", "ნ">>, <<"თ", "ე", "ბ">>, <<"მ", "ა", "რ">>, <<"ა", "პ", "რ">>, <<"მ", "ა", "ი">>, <<"ი", "ვ", "ნ">>,
     <<"ი", "ვ", "ლ">>, <<"ა", "გ", "ვ">>, <<"ს", "ე", "ქ">>, <<"ო", "ქ", "ტ">>, <<"ნ", "ო", "ე">>, <<"დ", "ე", "კ">>,
     <<"მ", "ა", "რ", "ტ", "ი">>, <<"მ", "ა">>, <<"x", "y", "z">>, <<"M", "a", "r">>}
TimeTokens ==
    {<<"1", "4", ":", "3", "0">>, <<"2", "3", ":", "5", "9">>, <<"0", "0", ":", "0", "0">>, <<"2", "4", ":", "0", "0">>, <<"1", "4", ":", "6", "0">>, <<"1", "4", "3", "0">>,
     <<"7", ":", "3", "0">>, <<"1", "4", ":", "3">>, <<"a", "b", ":", "c", "d">>, <<"1", "4">>}

\* The ways an upload_date is laid out: day, month and time separated by
\* single spaces; by runs of spaces; the time missing; the time given twice;
\* day and month run together
Layouts == {"d m t", " d  m t ", "d m", "d m t t", "dm t"}

Compose(layout, d, m, t) ==
    CASE layout = "d m t" -> d \o <<" ">> \o m \o <<" ">> \o t
      [] layout = " d  m t " ->
            <<" ">> \o d \o <<" ", " ">> \o m \o <<" ">> \o t \o <<" ">>
      [] layout = "d m" -> d \o <<" ">> \o m
      [] layout = "d m t t" -> d \o <<" ">> \o m \o <<" ">> \o t \o <<" ">> \o t
      [] layout = "dm t" -> d \o m \o <<" ">> \o t

\* main() over a table whose first upload_date is put together from a day, a
\* month and a time token, in a leap year and in a common year
InitDate ==
    InitWith({Row(StrV(<<"1", "0", "0", ",", "0", "0", "0", "$">>), StrV(<<"5", "0", "მ", "²">>), StrV(<<"1", ",", "2", "0", "0", "$">>), u,
                  StrV(SaleText), StrV(Vake)) :
                 u \in {StrV(Compose(l, d, m, t)) :
                           l \in Layouts, d \in DayTokens,
                           m \in MonthTokens, t \in TimeTokens}
                       \cup {NaN, None}},
             {WellFormedRow}, {<<3, 8>>}, Years)

SpecDate == InitDate /\ [][Next]_vars

\* What the three tokens of a date text say: the day number, the month the
\* first three characters of the month token stand for, the hour (characters
\* 1-2 of the time token) and the minute (characters 4-5)
DateTokens(x) == Split(PyStr(x))
DayText(x) == DateTokens(x)[1]
MonthAbbr(x) == SubSeq(DateTokens(x)[2], 1, 3)
HourText(x) == SubSeq(DateTokens(x)[3], 1, 2)
MinuteText(x) == SubSeq(DateTokens(x)[3], 4, 5)

MonthTable ==
    <<<<"ი", "ა", "ნ">>, <<"თ", "ე", "ბ">>, <<"მ", "ა", "რ">>, <<"ა", "პ", "რ">>, <<"მ", "ა", "ი">>, <<"ი", "ვ", "ნ">>,
      <<"ი", "ვ", "ლ">>, <<"ა", "გ", "ვ">>, <<"ს", "ე", "ქ">>, <<"ო", "ქ", "ტ">>, <<"ნ", "ო", "ე">>, <<"დ", "ე", "კ">>>>

InMonthTable(abbr) == \E i \in 1..12 : MonthTable[i] = abbr
MonthNumber(abbr) == CHOOSE i \in 1..12 : MonthTable[i] = abbr

IsNumberText(s) == s # <<>> /\ \A i \in 1..Len(s) : s[i] \in Digits

\* Three tokens, a month of the table, and day, hour and minute are numbers
ParsesAsDate(x) ==
    /\ Len(DateTokens(x)) = 3
    /\ Len(DateTokens(x)[2]) >= 3 /\ InMonthTable(MonthAbbr(x))
    /\ IsNumberText(DayText(x))
    /\ Len(DateTokens(x)[3]) >= 4
    /\ IsNumberText(HourText(x))
    /\ IsNumberText(SubSeq(DateTokens(x)[3], 4,
                           IF Len(DateTokens(x)[3]) < 5 THEN 4 ELSE 5))

MinuteOf(x) ==
    DigitsVal(SubSeq(DateTokens(x)[3], 4,
                     IF Len(DateTokens(x)[3]) < 5 THEN 4 ELSE 5), 0)

TimestampOf(x, year) ==
    [k |-> "ts", year |-> year, month |-> MonthNumber(MonthAbbr(x)),
     day |-> DigitsVal(DayText(x), 0), hour |-> DigitsVal(HourText(x), 0),
     minute |-> MinuteOf(x)]

\* The day exists in that month of that year, and the time is a time of day
IsCalendarTime(ts) ==
    /\ ts.day >= 1
    /\ ts.day <= (IF ts.month = 2
                  THEN (IF ts.year % 4 = 0 /\ (ts.year % 100 # 0 \/ ts.year % 400 = 0)
                        THEN 29 ELSE 28)
                  ELSE IF ts.month \in {4, 6, 9, 11} THEN 30 ELSE 31)
    /\ ts.hour <= 23
    /\ ts.minute <= 59

\* C7 as stated: a text of exactly three tokens whose month is in the table
\* and whose numbers parse gives the timestamp (current year, month, day,
\* hour, minute); every other value gives "missing".
C7_DateMapping ==
    Returned("transform_upload_date") /\ reran = 0 =>
        \A r \in Rows :
            LET x == raw_df[r].upload_date
                out == apartments_df[r].upload_date
            IN  IF ParsesAsDate(x)
                THEN out = TimestampOf(x, now_year)
                ELSE Missing(out)

\* C7 as amended: such a text gives the timestamp when, in addition, the
\* day exists in that month of the current year, the hour is at most 23 and
\* the minute at most 59; every other value gives "missing"; nothing is
\* raised.
C7_ValidDateMapping ==
    /\ ~RaisedIn("transform_upload_date")
    /\ Returned("transform_upload_date") /\ reran = 0 =>
          \A r \in Rows :
              LET x == raw_df[r].upload_date
                  out == apartments_df[r].upload_date
              IN  IF ParsesAsDate(x) /\ IsCalendarTime(TimestampOf(x, now_year))
                  THEN out = TimestampOf(x, now_year)
                  ELSE Missing(out)

\* "15 მარ 14:30" has become (year, 3, 15, 14, 30)
C7_Witness ==
    /\ Returned("transform_upload_date")
    /\ raw_df[1].upload_date = StrV(GoodDate)
    /\ apartments_df[1].upload_date =
          [k |-> "ts", year |-> now_year, month |-> 3, day |-> 15,
           hour |-> 14, minute |-> 30]

-----------------------------------------------------------------------------
(* C6 *)

Fragments ==
    {ForSale, Pledge, DailyRent, Rent, <<" ">>, <<"დ", "ღ", "ი", "უ", "რ", "ა", "დ">>, <<"ბ", "ი", "ნ", "ა">>}

\* main() over a table whose first description is put together from at most
\* MaxFrags fragments, or is no text
InitDescription ==
    InitWith({Row(StrV(<<"1", "0", "0", ",", "0", "0", "0", "$">>), StrV(<<"5", "0", "მ", "²">>), StrV(<<"1", ",", "2", "0", "0", "$">>),
                  StrV(GoodDate), de, StrV(Vake)) :
                 de \in {StrV(t) : t \in Joined(Fragments, MaxFrags)}
                        \cup {NaN, None, IntV(5)}},
             {WellFormedRow}, {<<3, 8>>}, {2025})

SpecDescription == InitDescription /\ [][Next]_vars

\* The markers in their order, each with its label
Markers ==
    <<<<ForSale, ForSale>>, <<Pledge, Pledge>>, <<DailyRent, DailyRent>>,
      <<Rent, MonthlyRent>>>>

HasMarker(d, i) == IsStr(d) /\ Contains(d.s, Markers[i][1])

\* out is the label of the first marker of the list the description holds,
\* "missing" when it holds none or is no text
FirstMarkerLabel(d, out) ==
    /\ \A i \in 1..Len(Markers) :
          HasMarker(d, i) /\ (\A j \in 1..(i - 1) : ~HasMarker(d, j)) =>
              out = StrV(Markers[i][2])
    /\ (\A i \in 1..Len(Markers) : ~HasMarker(d, i)) => Missing(out)

\* C6 as stated: the classifier gives the label of the first marker the
\* description holds, a description that holds the daily-rental marker is
\* classified daily rental and never monthly rental, and a description that
\* is no text or holds no marker gives "missing".
C6_Classifier ==
    Returned("new_transaction_type_col") /\ reran = 0 =>
        \A r \in Rows :
            LET d == raw_df[r].description
                out == apartments_df[r].transaction_type
            IN  /\ FirstMarkerLabel(d, out)
                /\ HasMarker(d, 3) => out = StrV(DailyRent)

\* C6 as amended: the classifier gives the label of the first marker the
\* description holds; a description that holds the daily-rental marker is
\* never classified monthly rental, and is classified daily rental when it
\* holds neither the for-sale nor the pledge marker.
C6_ClassifierFirstMatch ==
    Returned("new_transaction_type_col") /\ reran = 0 =>
        \A r \in Rows :
            LET d == raw_df[r].description
                out == apartments_df[r].transaction_type
            IN  /\ FirstMarkerLabel(d, out)
                /\ HasMarker(d, 3) => out # StrV(MonthlyRent)
                /\ HasMarker(d, 3) /\ ~HasMarker(d, 1) /\ ~HasMarker(d, 2) =>
                      out = StrV(DailyRent)

\* a description of the daily-rental marker and more text has been
\* classified daily rental
C6_Witness ==
    /\ Returned("new_transaction_type_col")
    /\ raw_df[1].description = StrV(<<"ბ", "ი", "ნ", "ა">> \o <<" ">> \o DailyRent)
    /\ apartments_df[1].transaction_type = StrV(DailyRent)

=============================================================================
